---- MODULE Spec2Model ----
(***************************************************************************)
(* Model of voice_tray.py: the SIGUSR1 toggle controller, the GLib control *)
(* loop (idle callbacks and timeout sources), and the recording worker     *)
(* threads running AudioRecorder.record and _record_and_transcribe.        *)
(*                                                                         *)
(* Texts are sequences of one-character strings.  A status text is the     *)
(* sequence <<prefix>> \o detail, e.g. <<"Recording", "o", "o", "o">>.     *)
(* The tier glyphs of the source are written "*" (filled) and "o" (empty). *)
(***************************************************************************)
EXTENDS Integers, Sequences, FiniteSets, TLC

\* ---------------------------------------------------------------- bounds
MaxSignals == 4      \* SIGUSR1 deliveries handled in one run
MaxFrames  == 2      \* chunks one session can capture
MaxQueue   == 2      \* pending idle callbacks on the control loop
MaxLiveSignals == 2  \* SIGUSR1 deliveries in the single-session model
MaxLiveQueue   == 4  \* pending idle callbacks in the single-session model

MaxWorkers == (MaxSignals + 1) \div 2
Workers    == 1..MaxWorkers

\* ------------------------------------------------------ program constants
LEVEL_HIGH      == 15
LEVEL_MEDIUM    == 7
LEVEL_LOW       == 4
SUCCESS_TIMEOUT == 3
ERROR_TIMEOUT   == 2
PREVIEW_LEN     == 30

\* NORMALIZATION_DIVISOR = 3276.70, times 100 to make it an integer
NORMALIZATION_DIVISOR_x100 == 327670

Abs(x) == IF x < 0 THEN -x ELSE x

\* level = max(abs(min(audio_data)), abs(max(audio_data))), lo and hi the
\* smallest and the largest sample of the chunk
ChunkLevel(lo, hi) == IF Abs(lo) > Abs(hi) THEN Abs(lo) ELSE Abs(hi)

\* the sum of the two magnitudes instead of the larger one
NormalizedLevelOfSum(lo, hi) ==
    ((Abs(lo) + Abs(hi)) * 100 * 100) \div NORMALIZATION_DIVISOR_x100

\* normalized_level = int((level / NORMALIZATION_DIVISOR) * 100), which for
\* every level 0..32768 is the floor of level * 100 / 3276.70
NormalizedLevel(lo, hi) ==
    (ChunkLevel(lo, hi) * 100 * 100) \div NORMALIZATION_DIVISOR_x100

\* normalized levels of the chunks of the concurrent model: silence and a
\* chunk of the highest tier (0 and 16)
Levels == {NormalizedLevel(0, 0), NormalizedLevel(-525, 0)}

\* chunks of the level model: smallest sample lo, largest sample hi, 16-bit
MaxSample == 530
LowSamples  == {-32768, 0}
HighSamples == (0..MaxSample) \cup {3276, 3277, 32767}

\* raw results the transcription collaborator can return
LongText == [i \in 1..(PREVIEW_LEN + 1) |-> "a"]
Transcriptions == { <<>>, <<" ">>, <<" ", "h", "i", " ">>, LongText }

VARIABLES
    is_recording,      \* self.is_recording
    stop_recording,    \* self.stop_recording (threading.Event): TRUE = set
    recording_thread,  \* self.recording_thread: id of the last spawned worker, 0 = None
    current_level,     \* self.current_level
    status_label,      \* label of self.status_item
    indicator_label,   \* label of self.indicator
    idleQueue,         \* GLib idle sources, in the order they were added
    timers,            \* pending GLib timeout sources
    evaluating,        \* toggle ids whose _toggle_recording call is in progress
    worker,            \* per worker thread: position and locals
    log_file,          \* texts appended to transcriptions.log
    clipboard,         \* last text handed to xclip
    signals,           \* number of SIGUSR1 handled by _handle_signal
    evaluated,         \* toggle ids in the order their evaluation began
    queueLimit         \* idle callbacks the model lets be pending at once

vars == << is_recording, stop_recording, recording_thread, current_level,
           status_label, indicator_label, idleQueue, timers, evaluating, worker, log_file,
           clipboard, signals, evaluated, queueLimit >>

ctlVars  == << is_recording, stop_recording, recording_thread >>
sideVars == << log_file, clipboard >>

\* ------------------------------------------------------------ pure helpers
IsSpace(c) == c = " "

RECURSIVE lstrip(_)
lstrip(s) == IF s # <<>> /\ IsSpace(Head(s)) THEN lstrip(Tail(s)) ELSE s

RECURSIVE rstrip(_)
rstrip(s) == IF s # <<>> /\ IsSpace(s[Len(s)])
             THEN rstrip(SubSeq(s, 1, Len(s) - 1)) ELSE s

\* str.strip()
strip(s) == rstrip(lstrip(s))

\* preview = text[:30] + "..." if len(text) > 30 else text
Preview(text) == IF Len(text) > PREVIEW_LEN
                 THEN SubSeq(text, 1, PREVIEW_LEN) \o <<".", ".", ".">>
                 ELSE text

\* the tiers with inclusive lower bounds
LevelIndicatorInclusive(level) ==
    IF level >= LEVEL_HIGH THEN <<"*", "*", "*">>
    ELSE IF level >= LEVEL_MEDIUM THEN <<"*", "*", "o">>
    ELSE IF level >= LEVEL_LOW THEN <<"*", "o", "o">>
    ELSE <<"o", "o", "o">>

\* the tier chosen by update_level_indicator
LevelIndicator(level) ==
    IF level > LEVEL_HIGH THEN <<"*", "*", "*">>
    ELSE IF level > LEVEL_MEDIUM THEN <<"*", "*", "o">>
    ELSE IF level > LEVEL_LOW THEN <<"*", "o", "o">>
    ELSE <<"o", "o", "o">>

StatusText(prefix, detail) == <<prefix>> \o detail

Ready == StatusText("Ready", <<>>)

\* an idle source: cb is the callback, n its integer argument (toggle id or
\* level), text its status text, w the session it belongs to (0: none) and
\* by the context that called GLib.idle_add: "signal" the signal handler,
\* "loop" start_recording, "level" update_level_indicator, "timer" a reset
\* timer, "worker" a worker thread
Callback(cb, n, text, w, by) ==
    [cb |-> cb, n |-> n, text |-> text, w |-> w, by |-> by]

\* a queue that dispatches the newest source first
IdleAddFront(q, c) == <<c>> \o q

\* GLib.idle_add: sources of equal priority are dispatched in insertion order
IdleAdd(q, c) == Append(q, c)

\* the control loop dispatches one callback at a time
LoopFree == evaluating = {}

\* a worker thread: pc is its position; frames the length of record's frames
\* list; stream whether its input stream is open; file whether its temporary
\* wav file exists; text the stripped transcription; outcome the status it
\* published.  The locals of record() are dropped when record() returns, the
\* locals of _record_and_transcribe when the thread ends.
\* History of the thread: effects, the external operations it performed, in
\* order (a status publish is named by the prefix of its text); captured,
\* its capture loop read at least one chunk; stopRequested, a stop was evaluated while it was capturing;
\* readsSinceStop, the chunk reads it completed since then (counted up to 2);
\* readFault, its capture loop was ended by a failed read.
NewWorker == [pc |-> "none", frames |-> 0, stream |-> FALSE, file |-> FALSE,
              text |-> <<>>, effects |-> <<>>, outcome |-> "none",
              captured |-> FALSE,
              stopRequested |-> FALSE, readsSinceStop |-> 0,
              readFault |-> FALSE]

Init ==
    /\ is_recording = FALSE
    /\ stop_recording = FALSE
    /\ recording_thread = 0
    /\ current_level = 0
    /\ status_label = Ready
    /\ indicator_label = <<"mic">>
    /\ idleQueue = <<>>
    /\ timers = {}
    /\ evaluating = {}
    /\ worker = [w \in Workers |-> NewWorker]
    /\ log_file = <<>>
    /\ clipboard = <<>>
    /\ signals = 0
    /\ evaluated = <<>>
    /\ queueLimit = MaxQueue

\* ------------------------------------------------------------ control loop
uiVars == << status_label, indicator_label, current_level >>

\* the indicator label chosen by _do_update_status from the status text
IndicatorLabel(text) ==
    IF \E i \in 1..Len(text) : text[i] = "Recording"
    THEN <<"mic">> \o ( IF Len(text) = 4 THEN SubSeq(text, 2, 4)
                        ELSE <<"o", "o", "o">> )
    ELSE IF \E i \in 1..Len(text) : text[i] = "Processing..."
    THEN <<"mic", "...">>
    ELSE <<"mic">>

\* update_status(text): post _do_update_status to the control loop
UpdateStatus(q, text, w, by) == IdleAdd(q, Callback("status", 0, text, w, by))

\* _handle_signal: SIGUSR1 arrives, the handler posts _toggle_recording
HandleSignal ==
    /\ signals < MaxSignals
    /\ Len(idleQueue) < queueLimit
    /\ signals' = signals + 1
    /\ idleQueue' = IdleAdd(idleQueue,
                            Callback("toggle", signals + 1, <<>>, 0, "signal"))
    /\ UNCHANGED << queueLimit, ctlVars, uiVars, timers, evaluating, worker, sideVars,
                    evaluated >>

\* the control loop dispatches _toggle_recording: the call begins
BeginToggle ==
    /\ LoopFree
    /\ idleQueue # <<>>
    /\ Head(idleQueue).cb = "toggle"
    /\ evaluating' = evaluating \cup {Head(idleQueue).n}
    /\ evaluated' = Append(evaluated, Head(idleQueue).n)
    /\ idleQueue' = Tail(idleQueue)
    /\ UNCHANGED << queueLimit, ctlVars, uiVars, timers, worker, sideVars, signals >>

InCapture(w) == worker[w].pc \in {"spawned", "loop", "read"}

\* start_recording without self.stop_recording.clear()
StartRecordingNoClear(id) ==
    /\ id \in evaluating
    /\ ~is_recording
    /\ recording_thread < MaxWorkers
    /\ is_recording' = TRUE
    /\ idleQueue' = UpdateStatus(idleQueue,
                                 StatusText("Recording", <<"o", "o", "o">>),
                                 recording_thread + 1, "loop")
    /\ recording_thread' = recording_thread + 1
    /\ worker' = [worker EXCEPT ![recording_thread + 1].pc = "spawned"]
    /\ evaluating' = evaluating \ {id}
    /\ UNCHANGED << queueLimit, stop_recording, uiVars, timers, sideVars, signals,
                    evaluated >>

\* _toggle_recording, branch `not self.is_recording`: start_recording()
StartRecording(id) ==
    /\ id \in evaluating
    /\ ~is_recording
    /\ recording_thread < MaxWorkers
    /\ is_recording' = TRUE
    /\ stop_recording' = FALSE
    /\ idleQueue' = UpdateStatus(idleQueue,
                                 StatusText("Recording", <<"o", "o", "o">>),
                                 recording_thread + 1, "loop")
    /\ recording_thread' = recording_thread + 1
    /\ worker' = [worker EXCEPT ![recording_thread + 1].pc = "spawned"]
    /\ evaluating' = evaluating \ {id}
    /\ UNCHANGED << queueLimit, uiVars, timers, sideVars, signals, evaluated >>

\* _toggle_recording, branch else: stop_recording_action()
StopRecordingAction(id) ==
    /\ id \in evaluating
    /\ is_recording
    /\ is_recording' = FALSE
    /\ stop_recording' = TRUE
    /\ worker' = [w \in Workers |->
                    IF InCapture(w) /\ ~worker[w].stopRequested
                    THEN [worker[w] EXCEPT !.stopRequested = TRUE,
                                           !.readsSinceStop = 0]
                    ELSE worker[w]]
    /\ evaluating' = evaluating \ {id}
    /\ UNCHANGED << queueLimit, recording_thread, uiVars, idleQueue, timers, sideVars,
                    signals, evaluated >>

\* the control loop dispatches _do_update_status(text, icon)
DoUpdateStatus ==
    /\ LoopFree
    /\ idleQueue # <<>>
    /\ Head(idleQueue).cb = "status"
    /\ status_label' = Head(idleQueue).text
    /\ indicator_label' = IndicatorLabel(Head(idleQueue).text)
    /\ idleQueue' = Tail(idleQueue)
    /\ UNCHANGED << queueLimit, ctlVars, current_level, timers, evaluating, worker,
                    sideVars, signals, evaluated >>

\* the control loop dispatches update_level_indicator(level)
UpdateLevelIndicator ==
    /\ LoopFree
    /\ idleQueue # <<>>
    /\ Head(idleQueue).cb = "level"
    /\ current_level' = Head(idleQueue).n
    /\ idleQueue' = UpdateStatus(Tail(idleQueue),
                        StatusText("Recording", LevelIndicator(Head(idleQueue).n)),
                        Head(idleQueue).w, "level")
    /\ UNCHANGED << queueLimit, ctlVars, status_label, indicator_label, timers,
                    evaluating, worker, sideVars, signals, evaluated >>

\* a timeout source fires: the lambda calls _reset_to_ready()
ResetToReady(t) ==
    /\ LoopFree
    /\ t \in timers
    /\ Len(idleQueue) < queueLimit
    /\ timers' = timers \ {t}
    /\ idleQueue' = UpdateStatus(idleQueue, Ready, t.w, "timer")
    /\ UNCHANGED << queueLimit, ctlVars, uiVars, evaluating, worker, sideVars, signals,
                    evaluated >>

\* ---------------------------------------------------------- worker threads
loopVars == << is_recording, stop_recording, recording_thread, uiVars,
               evaluating, signals, evaluated >>

Did(w, op) == Append(worker[w].effects, op)

\* record(): the device exists, the input stream is opened, frames = []
OpenStream(w) ==
    /\ worker[w].pc = "spawned"
    /\ worker' = [worker EXCEPT ![w].pc = "loop", ![w].stream = TRUE,
                                ![w].frames = 0]
    /\ UNCHANGED << queueLimit, loopVars, idleQueue, timers, sideVars >>

\* record(): `while not stop_event.is_set()`
CheckStop(w) ==
    /\ worker[w].pc = "loop"
    /\ worker' = [worker EXCEPT ![w].pc =
                      IF stop_recording THEN "close" ELSE "read"]
    /\ UNCHANGED << queueLimit, loopVars, idleQueue, timers, sideVars >>

\* record(): stream.read returns a chunk; its level is posted to the loop
ReadChunkLevel(w, level) ==
    /\ worker[w].pc = "read"
    /\ worker[w].frames < MaxFrames
    /\ Len(idleQueue) < queueLimit
    /\ idleQueue' = IdleAdd(idleQueue,
                            Callback("level", level, <<>>, w, "worker"))
    /\ worker' = [worker EXCEPT
                    ![w].pc = "loop",
                    ![w].frames = @ + 1,
                    ![w].captured = TRUE,
                    ![w].readsSinceStop =
                        IF worker[w].stopRequested /\ @ < 2 THEN @ + 1 ELSE @]
    /\ UNCHANGED << queueLimit, loopVars, timers, sideVars >>

\* a chunk of one of the levels of the concurrent model is read
ReadChunk(w) == \E level \in Levels : ReadChunkLevel(w, level)

\* a chunk with smallest sample lo and largest sample hi is read
ReadSamples(w) ==
    \E lo \in LowSamples, hi \in HighSamples :
        ReadChunkLevel(w, NormalizedLevel(lo, hi))

\* record(): stream.read raises, `except: break`
ReadFault(w) ==
    /\ worker[w].pc = "read"
    /\ worker' = [worker EXCEPT ![w].pc = "close", ![w].readFault = TRUE]
    /\ UNCHANGED << queueLimit, loopVars, idleQueue, timers, sideVars >>

\* record() without the `if not frames` test: a wav file in every case
CloseStreamAlwaysFile(w) ==
    /\ worker[w].pc = "close"
    /\ worker' = [worker EXCEPT
                    ![w].stream = FALSE,
                    ![w].file = TRUE,
                    ![w].pc = "recorded",
                    ![w].frames = 0,
                    ![w].stopRequested = FALSE,
                    ![w].readsSinceStop = 0,
                    ![w].readFault = FALSE]
    /\ UNCHANGED << queueLimit, loopVars, idleQueue, timers, sideVars >>

\* record(): stop_stream, close; None without frames, else the wav file
CloseStream(w) ==
    /\ worker[w].pc = "close"
    /\ worker' = [worker EXCEPT
                    ![w].stream = FALSE,
                    ![w].file = (worker[w].frames # 0),
                    ![w].pc = IF worker[w].frames = 0 THEN "no_audio"
                              ELSE "recorded",
                    ![w].frames = 0,
                    ![w].stopRequested = FALSE,
                    ![w].readsSinceStop = 0,
                    ![w].readFault = FALSE]
    /\ UNCHANGED << queueLimit, loopVars, idleQueue, timers, sideVars >>

\* _record_and_transcribe: `if not audio_file: update_status("Ready"); return`
PublishReady(w) ==
    /\ worker[w].pc = "no_audio"
    /\ Len(idleQueue) < queueLimit
    /\ idleQueue' = UpdateStatus(idleQueue, Ready, w, "worker")
    /\ worker' = [worker EXCEPT ![w].pc = "done",
                                ![w].outcome = "NoAudio",
                                ![w].effects = Did(w, "Ready")]
    /\ UNCHANGED << queueLimit, loopVars, timers, sideVars >>

\* the worker thread calling _do_update_status itself
PublishProcessingDirect(w) ==
    /\ worker[w].pc = "recorded"
    /\ status_label' = StatusText("Processing...", <<>>)
    /\ indicator_label' = IndicatorLabel(StatusText("Processing...", <<>>))
    /\ worker' = [worker EXCEPT ![w].pc = "transcribe",
                                ![w].effects = Did(w, "Processing...")]
    /\ UNCHANGED << queueLimit, ctlVars, current_level, evaluating, signals, evaluated,
                    idleQueue, timers, sideVars >>

\* _record_and_transcribe: update_status("Processing...")
PublishProcessing(w) ==
    /\ worker[w].pc = "recorded"
    /\ Len(idleQueue) < queueLimit
    /\ idleQueue' = UpdateStatus(idleQueue, StatusText("Processing...", <<>>),
                                 w, "worker")
    /\ worker' = [worker EXCEPT ![w].pc = "transcribe",
                                ![w].effects = Did(w, "Processing...")]
    /\ UNCHANGED << queueLimit, loopVars, timers, sideVars >>

\* the transcription used as returned, without strip()
TranscribeNoStrip(w) ==
    /\ worker[w].pc = "transcribe"
    /\ \E raw \in Transcriptions :
          worker' = [worker EXCEPT
                       ![w].text = raw,
                       ![w].effects = Did(w, "transcribe"),
                       ![w].pc = IF raw # <<>> THEN "save_log"
                                 ELSE "no_speech"]
    /\ UNCHANGED << queueLimit, loopVars, idleQueue, timers, sideVars >>

\* the try block up to `text = transcription.strip()`: the call returns
Transcribe(w) ==
    /\ worker[w].pc = "transcribe"
    /\ \E raw \in Transcriptions :
          worker' = [worker EXCEPT
                       ![w].text = strip(raw),
                       ![w].effects = Did(w, "transcribe"),
                       ![w].pc = IF strip(raw) # <<>> THEN "save_log"
                                 ELSE "no_speech"]
    /\ UNCHANGED << queueLimit, loopVars, idleQueue, timers, sideVars >>

\* the try block up to the transcription call: something raises
TranscribeFault(w) ==
    /\ worker[w].pc = "transcribe"
    /\ worker' = [worker EXCEPT ![w].effects = Did(w, "fault"),
                                ![w].pc = "except"]
    /\ UNCHANGED << queueLimit, loopVars, idleQueue, timers, sideVars >>

\* _save_to_log without its try/except: a write error reaches the except
\* clause of _record_and_transcribe
SaveToLogRaising(w) ==
    /\ worker[w].pc = "save_log"
    /\ \E ok \in BOOLEAN :
          /\ log_file' = IF ok THEN Append(log_file, worker[w].text)
                         ELSE log_file
          /\ worker' = [worker EXCEPT ![w].effects = Did(w, "log"),
                                      ![w].pc = IF ok THEN "clipboard"
                                                ELSE "except"]
    /\ UNCHANGED << queueLimit, loopVars, idleQueue, timers, clipboard >>

\* _save_to_log(text): a write error is printed and swallowed
SaveToLog(w) ==
    /\ worker[w].pc = "save_log"
    /\ \E ok \in BOOLEAN :
          /\ log_file' = IF ok THEN Append(log_file, worker[w].text)
                         ELSE log_file
          /\ worker' = [worker EXCEPT ![w].effects = Did(w, "log"),
                                      ![w].pc = "clipboard"]
    /\ UNCHANGED << queueLimit, loopVars, idleQueue, timers, clipboard >>

\* _copy_to_clipboard(text): an xclip error is printed and swallowed
CopyToClipboard(w) ==
    /\ worker[w].pc = "clipboard"
    /\ \E ok \in BOOLEAN :
          /\ clipboard' = IF ok THEN worker[w].text ELSE clipboard
          /\ worker' = [worker EXCEPT ![w].effects = Did(w, "clipboard"),
                                      ![w].pc = "copied"]
    /\ UNCHANGED << queueLimit, loopVars, idleQueue, timers, log_file >>

\* update_status(f"Copied: {preview}")
PublishCopied(w) ==
    /\ worker[w].pc = "copied"
    /\ Len(idleQueue) < queueLimit
    /\ idleQueue' = UpdateStatus(idleQueue,
                        StatusText("Copied", Preview(worker[w].text)),
                        w, "worker")
    /\ worker' = [worker EXCEPT ![w].effects = Did(w, "Copied"),
                                ![w].outcome = "Success",
                                ![w].pc = "timer"]
    /\ UNCHANGED << queueLimit, loopVars, timers, sideVars >>

\* update_status("No speech detected")
PublishNoSpeech(w) ==
    /\ worker[w].pc = "no_speech"
    /\ Len(idleQueue) < queueLimit
    /\ idleQueue' = UpdateStatus(idleQueue,
                        StatusText("No speech detected", <<>>), w, "worker")
    /\ worker' = [worker EXCEPT ![w].effects = Did(w, "No speech detected"),
                                ![w].outcome = "NoSpeech",
                                ![w].pc = "timer"]
    /\ UNCHANGED << queueLimit, loopVars, timers, sideVars >>

\* an except clause that swallows the fault: no status, no reset timer
PublishErrorSilent(w) ==
    /\ worker[w].pc = "except"
    /\ worker' = [worker EXCEPT ![w].pc = "finally"]
    /\ UNCHANGED << queueLimit, loopVars, idleQueue, timers, sideVars >>

\* except Exception: update_status("Error")
PublishError(w) ==
    /\ worker[w].pc = "except"
    /\ Len(idleQueue) < queueLimit
    /\ idleQueue' = UpdateStatus(idleQueue, StatusText("Error", <<>>),
                                 w, "worker")
    /\ worker' = [worker EXCEPT ![w].effects = Did(w, "Error"),
                                ![w].outcome = "Error",
                                ![w].pc = "timer"]
    /\ UNCHANGED << queueLimit, loopVars, timers, sideVars >>

\* the delay of the reset timer of an outcome
ResetDelay(outcome) ==
    IF outcome = "Success" THEN SUCCESS_TIMEOUT ELSE ERROR_TIMEOUT

\* the removal at the end of the try block instead of in finally: skipped
\* after an exception
ScheduleResetSkipCleanup(w) ==
    /\ worker[w].pc = "timer"
    /\ timers' = timers \cup
                    {[w |-> w, delay |-> ResetDelay(worker[w].outcome)]}
    /\ worker' = [worker EXCEPT
                    ![w].effects = Did(w, "timer"),
                    ![w].pc = IF worker[w].outcome = "Error" THEN "done"
                              ELSE "finally"]
    /\ UNCHANGED << queueLimit, loopVars, idleQueue, sideVars >>

\* GLib.timeout_add_seconds(delay, lambda: self._reset_to_ready())
ScheduleReset(w) ==
    /\ worker[w].pc = "timer"
    /\ timers' = timers \cup
                    {[w |-> w, delay |-> ResetDelay(worker[w].outcome)]}
    /\ worker' = [worker EXCEPT ![w].effects = Did(w, "timer"),
                                ![w].pc = "finally"]
    /\ UNCHANGED << queueLimit, loopVars, idleQueue, sideVars >>

\* finally: os.remove(audio_file), any error swallowed
RemoveFile(w) ==
    /\ worker[w].pc = "finally"
    /\ \E ok \in BOOLEAN :
          worker' = [worker EXCEPT ![w].effects = Did(w, "remove"),
                                   ![w].file = IF ok THEN FALSE ELSE @,
                                   ![w].text = <<>>,
                                   ![w].pc = "done"]
    /\ UNCHANGED << queueLimit, loopVars, idleQueue, timers, sideVars >>

WorkerStep(w) ==
    \/ OpenStream(w)
    \/ CheckStop(w)
    \/ ReadChunk(w)
    \/ ReadFault(w)
    \/ CloseStream(w)
    \/ PublishReady(w)
    \/ PublishProcessing(w)
    \/ Transcribe(w)
    \/ TranscribeFault(w)
    \/ SaveToLog(w)
    \/ CopyToClipboard(w)
    \/ PublishCopied(w)
    \/ PublishNoSpeech(w)
    \/ PublishError(w)
    \/ ScheduleReset(w)
    \/ RemoveFile(w)

Next ==
    \/ HandleSignal
    \/ BeginToggle
    \/ \E id \in 1..MaxSignals : StartRecording(id)
    \/ \E id \in 1..MaxSignals : StopRecordingAction(id)
    \/ DoUpdateStatus
    \/ UpdateLevelIndicator
    \/ \E t \in timers : ResetToReady(t)
    \/ \E w \in Workers : WorkerStep(w)

Spec == Init /\ [][Next]_vars

\* ---------------------------------------------------- single-session model
\* one start toggle and one stop toggle, the idle queue long enough to hold
\* every callback of the session at once
InitLive ==
    /\ is_recording = FALSE
    /\ stop_recording = FALSE
    /\ recording_thread = 0
    /\ current_level = 0
    /\ status_label = Ready
    /\ indicator_label = <<"mic">>
    /\ idleQueue = <<>>
    /\ timers = {}
    /\ evaluating = {}
    /\ worker = [w \in Workers |-> NewWorker]
    /\ log_file = <<>>
    /\ clipboard = <<>>
    /\ signals = 0
    /\ evaluated = <<>>
    /\ queueLimit = MaxLiveQueue

NextLive ==
    \/ signals < MaxLiveSignals /\ HandleSignal
    \/ BeginToggle
    \/ \E id \in 1..MaxLiveSignals : StartRecording(id)
    \/ \E id \in 1..MaxLiveSignals : StopRecordingAction(id)
    \/ DoUpdateStatus
    \/ UpdateLevelIndicator
    \/ \E t \in timers : ResetToReady(t)
    \/ \E w \in Workers : WorkerStep(w)

\* every timeout source that can be pending
Timeouts == [w : Workers, delay : {SUCCESS_TIMEOUT, ERROR_TIMEOUT}]

\* the control loop keeps dispatching its idle callbacks and its expired
\* timeout sources, a running callback returns, every started thread keeps
\* running; signals arrive or not
FairLive ==
    /\ WF_vars(BeginToggle)
    /\ WF_vars(\E id \in 1..MaxLiveSignals : StartRecording(id))
    /\ WF_vars(\E id \in 1..MaxLiveSignals : StopRecordingAction(id))
    /\ WF_vars(DoUpdateStatus)
    /\ WF_vars(UpdateLevelIndicator)
    /\ \A t \in Timeouts : WF_vars(ResetToReady(t))
    /\ \A w \in Workers : WF_vars(WorkerStep(w))

SpecLive == InitLive /\ [][NextLive]_vars /\ FairLive

\* ------------------------------------------------------------ level model
\* one session in its capture loop: the state after the first toggle was
\* evaluated, "Recording ooo" applied and the worker's stream opened
InitLevels ==
    /\ is_recording = TRUE
    /\ stop_recording = FALSE
    /\ recording_thread = 1
    /\ current_level = 0
    /\ status_label = StatusText("Recording", <<"o", "o", "o">>)
    /\ indicator_label = <<"mic", "o", "o", "o">>
    /\ idleQueue = <<>>
    /\ timers = {}
    /\ evaluating = {}
    /\ worker = [w \in Workers |->
                    IF w = 1 THEN [NewWorker EXCEPT !.pc = "loop",
                                                    !.stream = TRUE]
                    ELSE NewWorker]
    /\ log_file = <<>>
    /\ clipboard = <<>>
    /\ signals = 1
    /\ evaluated = <<1>>
    /\ queueLimit = MaxQueue

\* the capture loop reading chunks of all amplitudes, and the control loop
\* applying their levels
NextLevels ==
    \/ \E w \in Workers : CheckStop(w)
    \/ \E w \in Workers : ReadSamples(w)
    \/ UpdateLevelIndicator
    \/ DoUpdateStatus

SpecLevels == InitLevels /\ [][NextLevels]_vars

\* ------------------------------------------------------------------ claims
\* the worker is inside record's capture loop, its input stream open
InCaptureLoop(w) == worker[w].pc \in {"loop", "read"}

\* the worker is in the Processing phase: capture finished, the
\* transcription call not yet returned or raised
InProcessing(w) == worker[w].pc \in {"recorded", "transcribe"}

\* the worker is between publishing "Processing..." and the end of the
\* try/finally block of _record_and_transcribe
InFlight(w) == worker[w].pc \in {"transcribe", "save_log", "clipboard", "copied",
                                 "no_speech", "except", "timer", "finally"}

\* C1: in every reachable state at most one worker thread is inside the
\* capture loop of AudioRecorder.record.
C1_AtMostOneCapture ==
    Cardinality({w \in Workers : InCaptureLoop(w)}) <= 1

\* C2: start_recording spawns a worker only when no worker is in the
\* Processing phase.
C2_NoStartWhileProcessing ==
    [][recording_thread' # recording_thread
         => ~ \E w \in Workers : InProcessing(w)]_vars

\* C3: in every reachable state at most one transcription attempt is in
\* flight.
C3_AtMostOneTranscription ==
    Cardinality({w \in Workers : InFlight(w)}) <= 1

\* every handled signal's toggle has been evaluated to completion
Drained ==
    /\ evaluating = {}
    /\ Len(evaluated) = signals
    /\ \A i \in 1..Len(idleQueue) : idleQueue[i].cb # "toggle"

\* no worker has left its capture loop yet (no processing has taken place)
NoProcessingYet ==
    \A w \in Workers : worker[w].pc \in {"none", "spawned", "loop", "read"}

\* the sessions that are recording: started, not out of the capture loop and
\* not told to stop
RecordingSessions == {w \in Workers : InCapture(w) /\ ~stop_recording}

\* C4: after N toggles delivered from Idle with no intervening processing
\* have all been evaluated, the controller is recording with exactly one
\* recording session if N is odd, and idle with none if N is even.
C4_ToggleParity ==
    (Drained /\ NoProcessingYet) =>
        IF signals % 2 = 1
        THEN is_recording /\ Cardinality(RecordingSessions) = 1
        ELSE ~is_recording /\ Cardinality(RecordingSessions) = 0

IsToggle(c) == c.cb = "toggle"

\* the ids of the toggles waiting on the control loop, in queue order
QueuedToggles ==
    LET q == SelectSeq(idleQueue, IsToggle)
    IN  [i \in 1..Len(q) |-> q[i].n]

\* C5: every signal handled by _handle_signal gets exactly one evaluation of
\* _toggle_recording, in arrival order (the evaluations begun, followed by
\* the toggles still queued, are the signals 1..n in order), and at most one
\* evaluation is in progress at any time.
C5_ToggleOnceInOrder ==
    /\ evaluated \o QueuedToggles = [i \in 1..signals |-> i]
    /\ Cardinality(evaluating) <= 1
    /\ evaluating # {} => evaluating = {evaluated[Len(evaluated)]}

\* C5 witness: one toggle is being evaluated while two later ones wait
C5_Witness ==
    /\ evaluating # {}
    /\ Len(QueuedToggles) = 2

\* C6: once a stop has been evaluated for a capturing session, its worker
\* completes at most one further chunk read.
C6_BoundedCancellation ==
    \A w \in Workers :
        worker[w].stopRequested => worker[w].readsSinceStop <= 1

\* C7: no reset timer of an earlier session fires (calls _reset_to_ready)
\* while a later session is recording.
C7_NoStaleReset ==
    [][\A t \in timers :
          t \notin timers' =>
              ~ \E w \in Workers : w > t.w /\ InCapture(w)]_vars

\* the worker has left record()
PastCapture(w) ==
    worker[w].pc \notin {"none", "spawned", "loop", "read", "close"}

\* C8: a session whose capture ends with zero chunks goes straight to Idle:
\* its worker publishes "Ready" and nothing else: no "Processing...", no
\* transcription call, no log or clipboard write, no temporary file and no
\* reset timer.
C8_NoAudioShortCircuit ==
    \A w \in Workers :
        (PastCapture(w) /\ ~worker[w].captured) =>
            /\ worker[w].pc \in {"no_audio", "done"}
            /\ worker[w].effects =
                   IF worker[w].pc = "done" THEN <<"Ready">> ELSE <<>>
            /\ worker[w].pc = "done" => worker[w].outcome = "NoAudio"
            /\ ~worker[w].file
            /\ \A t \in timers : t.w # w
            /\ \A i \in 1..Len(idleQueue) :
                   (idleQueue[i].w = w /\ idleQueue[i].by = "worker"
                        /\ idleQueue[i].cb = "status")
                       => idleQueue[i].text = Ready

\* C8 witness: a worker ended through the no-audio short-circuit
C8_Witness ==
    \E w \in Workers :
        /\ worker[w].pc = "done"
        /\ ~worker[w].captured
        /\ worker[w].outcome = "NoAudio"

RECURSIVE Count(_, _)
Count(op, effects) ==
    IF effects = <<>> THEN 0
    ELSE (IF Head(effects) = op THEN 1 ELSE 0) + Count(op, Tail(effects))

\* C9 as stated: for every terminal outcome, the no-audio short-circuit
\* included, the temporary audio artifact is removed exactly once.
C9_RemovedOnceEveryOutcome ==
    \A w \in Workers :
        worker[w].pc = "done" => Count("remove", worker[w].effects) = 1

\* the status a worker publishes for an outcome
OutcomeStatus(outcome) ==
    IF outcome = "Success" THEN "Copied"
    ELSE IF outcome = "NoSpeech" THEN "No speech detected"
    ELSE "Error"

\* C9 (amended): a worker that ends with Success, NoSpeech or Error has
\* attempted the removal of its temporary file exactly once, as its last
\* operation, after the outcome status and the reset timer, whether or not
\* the removal succeeded; a worker that ends through the no-audio
\* short-circuit created no file and attempted no removal.
C9_CleanupAfterTranscription ==
    \A w \in Workers :
        worker[w].pc = "done" =>
            IF worker[w].outcome = "NoAudio"
            THEN Count("remove", worker[w].effects) = 0 /\ ~worker[w].file
            ELSE LET e == worker[w].effects
                     n == Len(e)
                 IN  /\ worker[w].outcome \in {"Success", "NoSpeech", "Error"}
                     /\ Count("remove", e) = 1
                     /\ n >= 3
                     /\ e[n] = "remove"
                     /\ e[n - 1] = "timer"
                     /\ e[n - 2] = OutcomeStatus(worker[w].outcome)

\* C9 witness: a worker ended with the Error outcome and its delete failed
C9_Witness ==
    \E w \in Workers :
        /\ worker[w].pc = "done"
        /\ worker[w].outcome = "Error"
        /\ worker[w].file

SuccessEffects ==
    <<"Processing...", "transcribe", "log", "clipboard", "Copied", "timer",
      "remove">>

\* the number of operations of the Success path done at a position
SuccessPosition(pc) ==
    IF pc = "save_log" THEN 2
    ELSE IF pc = "clipboard" THEN 3
    ELSE IF pc = "copied" THEN 4
    ELSE IF pc = "timer" THEN 5
    ELSE IF pc = "finally" THEN 6
    ELSE IF pc = "done" THEN 7
    ELSE 0

\* the non-empty texts a transcription can yield
FullTexts == {strip(raw) : raw \in Transcriptions} \ {<<>>}

\* C10: on a non-empty transcription the worker performs, once each and in
\* this order: the log append, the clipboard write, the "Copied" publish
\* and the scheduling of one reset with the 3-unit delay, whether or not
\* the log or clipboard write failed; log and clipboard receive the full
\* text, the status the preview of at most 30 characters plus "...".
C10_SuccessPipeline ==
    /\ \A w \in Workers :
          (worker[w].text # <<>> \/ worker[w].outcome = "Success") =>
              /\ SuccessPosition(worker[w].pc) > 0
              /\ worker[w].effects =
                     SubSeq(SuccessEffects, 1, SuccessPosition(worker[w].pc))
    /\ \A t \in timers : worker[t.w].outcome = "Success" => t.delay = 3
    /\ clipboard \in FullTexts \cup {<<>>}
    /\ \A i \in 1..Len(log_file) : log_file[i] \in FullTexts
    /\ \A i \in 1..Len(idleQueue) :
          (idleQueue[i].cb = "status" /\ idleQueue[i].text[1] = "Copied") =>
              \E f \in FullTexts :
                  idleQueue[i].text =
                      IF Len(f) > 30
                      THEN <<"Copied">> \o SubSeq(f, 1, 30) \o <<".", ".", ".">>
                      ELSE <<"Copied">> \o f

\* C10 witness: a worker ended with Success although both its log write and
\* its clipboard write failed
C10_Witness ==
    \E w \in Workers :
        /\ worker[w].pc = "done"
        /\ worker[w].outcome = "Success"
        /\ log_file = <<>>
        /\ clipboard = <<>>

NoSpeechEffects ==
    <<"Processing...", "transcribe", "No speech detected", "timer", "remove">>

\* the number of operations of the NoSpeech path done at a position
NoSpeechPosition(pc) ==
    IF pc = "no_speech" THEN 2
    ELSE IF pc = "timer" THEN 3
    ELSE IF pc = "finally" THEN 4
    ELSE IF pc = "done" THEN 5
    ELSE 0

\* C11: when the transcription returns empty or whitespace-only text the
\* session takes the NoSpeech outcome: the worker publishes "No speech
\* detected" and schedules one reset with the 2-unit delay, with no log
\* write and no clipboard write; only a text with a non-space character
\* goes on to the Success path.
C11_NoSpeechOutcome ==
    /\ \A w \in Workers :
          (worker[w].pc = "no_speech" \/ worker[w].outcome = "NoSpeech") =>
              /\ NoSpeechPosition(worker[w].pc) > 0
              /\ worker[w].effects =
                     SubSeq(NoSpeechEffects, 1, NoSpeechPosition(worker[w].pc))
              /\ worker[w].text = <<>>
    /\ \A w \in Workers :
          worker[w].text # <<>> =>
              \E i \in 1..Len(worker[w].text) : worker[w].text[i] # " "
    /\ \A w \in Workers :
          (worker[w].effects # <<>>
              /\ worker[w].effects[Len(worker[w].effects)] = "transcribe") =>
                 worker[w].pc = IF worker[w].text = <<>> THEN "no_speech"
                                ELSE "save_log"
    /\ \A t \in timers : worker[t.w].outcome = "NoSpeech" => t.delay = 2
    /\ \A i \in 1..Len(idleQueue) :
          (idleQueue[i].cb = "status" /\ idleQueue[i].by = "worker"
               /\ worker[idleQueue[i].w].outcome = "NoSpeech") =>
              idleQueue[i].text \in {<<"Processing...">>,
                                     <<"No speech detected">>}

\* C11 witness: a worker ended with the NoSpeech outcome
C11_Witness ==
    \E w \in Workers :
        worker[w].pc = "done" /\ worker[w].outcome = "NoSpeech"

ErrorEffects == <<"Processing...", "fault", "Error", "timer", "remove">>

\* the number of operations of the Error path done at a position
ErrorPosition(pc) ==
    IF pc = "except" THEN 2
    ELSE IF pc = "timer" THEN 3
    ELSE IF pc = "finally" THEN 4
    ELSE IF pc = "done" THEN 5
    ELSE 0

\* C12: a fault of the transcription call is caught in the worker and
\* becomes the Error outcome: the worker publishes "Error", schedules one
\* reset with the 2-unit delay, writes neither log nor clipboard, and runs
\* on to its end.
C12_FaultBecomesError ==
    /\ \A w \in Workers :
          (Count("fault", worker[w].effects) > 0 \/ worker[w].outcome = "Error")
              => /\ ErrorPosition(worker[w].pc) > 0
                 /\ worker[w].effects =
                        SubSeq(ErrorEffects, 1, ErrorPosition(worker[w].pc))
                 /\ worker[w].pc # "except" => worker[w].outcome = "Error"
    /\ \A t \in timers : worker[t.w].outcome = "Error" => t.delay = 2
    /\ \A i \in 1..Len(idleQueue) :
          (idleQueue[i].cb = "status" /\ idleQueue[i].by = "worker"
               /\ worker[idleQueue[i].w].outcome = "Error") =>
              idleQueue[i].text \in {<<"Processing...">>, <<"Error">>}

\* C12 witness: a worker ended with the Error outcome
C12_Witness ==
    \E w \in Workers :
        worker[w].pc = "done" /\ worker[w].outcome = "Error"

\* C13: a transcription fault leaves neither an open stream nor a set
\* cancellation flag behind for the next session: a worker out of record()
\* has closed its stream; while the controller is recording the flag is
\* clear; and a worker leaves its capture loop only on a failed read or
\* after a stop evaluated since it was started.
C13_FaultIsolation ==
    /\ \A w \in Workers : PastCapture(w) => ~worker[w].stream
    /\ is_recording => ~stop_recording
    /\ \A w \in Workers :
          worker[w].pc = "close" =>
              worker[w].readFault \/ worker[w].stopRequested

\* C13 witness: after a session ended with Error, a later session's worker
\* is reading chunks with the flag clear
C13_Witness ==
    \E w1, w2 \in Workers :
        /\ w1 < w2
        /\ worker[w1].pc = "done"
        /\ worker[w1].outcome = "Error"
        /\ worker[w2].pc = "read"
        /\ worker[w2].captured
        /\ ~stop_recording

\* C14: a failed read ends the capture loop like a cancellation: when the
\* worker leaves record() after it, its stream is closed, the frames
\* captured so far are handed on (the no-audio return if there are none,
\* no Error path), and the controller is in the state a stop toggle would
\* have left it in: not recording, when the session is the latest one.
C14_ReadFaultLikeStop ==
    [][\A w \in Workers :
          (worker[w].pc = "close" /\ worker[w].readFault
               /\ worker'[w].pc # "close") =>
              /\ ~worker'[w].stream
              /\ worker'[w].pc = IF worker[w].captured THEN "recorded"
                                 ELSE "no_audio"
              /\ worker'[w].file = worker[w].captured
              /\ w = recording_thread => ~is_recording']_vars

\* C15: the status label and the indicator label change only in a step of
\* the control loop that dispatches a posted _do_update_status callback
\* (the head of the idle queue), never in a step of a worker thread.
C15_StatusOnlyOnLoop ==
    [][(status_label' # status_label \/ indicator_label' # indicator_label)
          => /\ LoopFree
             /\ idleQueue # <<>>
             /\ Head(idleQueue).cb = "status"
             /\ idleQueue' = Tail(idleQueue)
             /\ status_label' = Head(idleQueue).text
             /\ worker' = worker]_vars

\* C15 witness: a status posted by a worker thread has been applied, and one
\* posted by a level callback waits on the control loop
C15_Witness ==
    /\ status_label = <<"Processing...">>
    /\ \E i \in 1..Len(idleQueue) :
          idleQueue[i].cb = "status" /\ idleQueue[i].by = "level"

\* the tiers as the claim states them
ClaimedTier(L) ==
    IF L > 15 THEN <<"*", "*", "*">>
    ELSE IF 7 < L /\ L <= 15 THEN <<"*", "*", "o">>
    ELSE IF 4 < L /\ L <= 7 THEN <<"*", "o", "o">>
    ELSE <<"o", "o", "o">>

\* the positions in the idle queue of the statuses posted by
\* update_level_indicator
LevelStatuses ==
    {i \in 1..Len(idleQueue) :
        idleQueue[i].cb = "status" /\ idleQueue[i].by = "level"}

\* C17: update_level_indicator maps every level L to the tier of the claim
\* (high iff L > 15, medium-high iff 7 < L <= 15, medium-low iff
\* 4 < L <= 7, low iff L <= 4): the status it posted last is "Recording"
\* with the claimed tier of the level it stored in current_level.
C17_Quantizer ==
    LevelStatuses # {} =>
        LET last == CHOOSE i \in LevelStatuses :
                        \A j \in LevelStatuses : j <= i
        IN  idleQueue[last].text = <<"Recording">> \o ClaimedTier(current_level)

\* C17 witness: the boundary level 15 was quantized (medium-high)
C17_Witness ==
    /\ current_level = 15
    /\ \E i \in LevelStatuses :
          idleQueue[i].text = <<"Recording", "*", "*", "o">>

\* C18 as stated: every level passed to the level callback is in 0..100.
C18_LevelWithin100 ==
    \A i \in 1..Len(idleQueue) :
        idleQueue[i].cb = "level" =>
            idleQueue[i].n >= 0 /\ idleQueue[i].n <= 100

\* C18 (amended): every level passed to the level callback, and so every
\* value of current_level, is an integer in 0..1000.
C18_LevelWithin1000 ==
    /\ \A i \in 1..Len(idleQueue) :
          idleQueue[i].cb = "level" =>
              idleQueue[i].n >= 0 /\ idleQueue[i].n <= 1000
    /\ current_level >= 0 /\ current_level <= 1000

\* C18 witness: a full-scale chunk was read and its level, 1000, applied
C18_Witness ==
    /\ current_level = 1000
    /\ \E i \in 1..Len(idleQueue) :
          idleQueue[i].cb = "level" /\ idleQueue[i].n = 1000

\* the worker of session w posted text and the control loop has applied it
WorkerStatusApplied(w, op, text) ==
    /\ Count(op, worker[w].effects) > 0
    /\ \A i \in 1..Len(idleQueue) :
          ~ /\ idleQueue[i].cb = "status"
            /\ idleQueue[i].by = "worker"
            /\ idleQueue[i].w = w
            /\ idleQueue[i].text = text

\* the control loop applies a status that came from a level sample of w
AppliesLevelStatus(w) ==
    /\ LoopFree
    /\ idleQueue # <<>>
    /\ Head(idleQueue).cb = "status"
    /\ Head(idleQueue).by = "level"
    /\ Head(idleQueue).w = w
    /\ idleQueue' = Tail(idleQueue)
    /\ status_label' = Head(idleQueue).text

\* C19: once the "Processing..." status (or the no-audio "Ready" status)
\* posted by a session's worker has been applied, no "Recording <tier>"
\* status that came from a level sample of that session is applied.
C19_SessionOrder ==
    [][\A w \in Workers :
          AppliesLevelStatus(w) =>
              /\ ~WorkerStatusApplied(w, "Processing...",
                                      StatusText("Processing...", <<>>))
              /\ ~WorkerStatusApplied(w, "Ready", Ready)]_vars

\* every worker either was never started or has returned
NoWorkerActive == \A w \in Workers : worker[w].pc \in {"none", "done"}

\* C20: whenever no toggle evaluation is in progress, is_recording is true
\* iff exactly one worker has been started and is still recording (not out
\* of its capture loop, not told to stop); so with no worker capturing or
\* transcribing is_recording is false, and the next toggle starts a
\* recording instead of being consumed as a stop.
C20_FlagAgreesWithWorkers ==
    LoopFree =>
        /\ is_recording <=> Cardinality(RecordingSessions) = 1
        /\ NoWorkerActive => ~is_recording

\* the session's stop toggle has been evaluated and no further toggle
\* arrives: both signals were handled, both toggles evaluated, the second
\* one as a stop
StopEvaluated ==
    /\ signals = MaxLiveSignals
    /\ Len(evaluated) = signals
    /\ evaluating = {}
    /\ ~is_recording

====
